---- MODULE Spec2Model ----
(***************************************************************************)
(* Credit ledger of the interview subsystem (core/credit_service.py) and   *)
(* the request handlers that drive it (app.py).  One account is modelled:  *)
(* its CreditAccount row, its CreditUsageStats row and its                 *)
(* CreditTransaction rows.  Time is a clock of half-day ticks.             *)
(***************************************************************************)
EXTENDS Integers, Sequences, FiniteSets, TLC

(* ---- bounds of the model ---- *)
TicksPerDay == 2
MaxNow == 29
SubTicks == 2
MaxOps == 2
MaxAdjust == 70

(* ---- CREDIT_CONFIG (constants.py) ---- *)
FULL_MOCK_INTERVIEW_COST == 10
MICRO_SESSION_COST == 1
CODING_QUESTION_COST == 1
PROJECT_IDEA_COST == 2
DEFAULT_WEEKLY_CREDITS == 60
MAX_DAILY_CREDITS_USAGE == 30
CREDITS_REFILL_DAYS == 7
MAX_FULL_INTERVIEWS_PER_WEEK == 4
MAX_MICRO_SESSIONS_PER_DAY == 10
MAX_CODING_QUESTIONS_PER_DAY == 10
MAX_PROJECT_IDEAS_PER_WEEK == 10
LEARNING_BONUS == 5

VARIABLES account, stats, ledger, now, pc, req, last, base,
          applicant, college_recs, job_recs, resp,
          required, skill_names, matched

vars == <<account, stats, ledger, now, pc, req, last, base,
          applicant, college_recs, job_recs, resp,
          required, skill_names, matched>>

(* the credit ledger of one applicant *)
ledgerVars == <<account, stats, ledger, now, pc, req, last, base>>

(* the recommendation rows of one applicant, and the operands of one skill
   matching *)
engineVars == <<applicant, college_recs, job_recs, resp, required, skill_names, matched>>

(* Python's None, for an optional number *)
None == 0 - 1

NoResponse ==
  [path |-> "none", interview_bonus |-> 0, assessment_bonus |-> 0,
   colleges |-> <<>>, jobs |-> <<>>]

(* no parsed resume, no recommendation row, no matching under way *)
EngineIdle ==
  /\ applicant = [exists |-> TRUE, llm_record |-> FALSE,
                  jee_rank |-> None, grade |-> None, skills |-> <<>>,
                  sessions |-> {}, assessments |-> <<>>]
  /\ college_recs = <<>>
  /\ job_recs = <<>>
  /\ resp = NoResponse
  /\ required = <<>>
  /\ skill_names = <<>>
  /\ matched = {}

Requests == {1, 2}

ActivityTypes == {"full_interview", "micro_session", "coding_question", "project_idea", "other"}

HandlerActivities == {"full_interview", "micro_session"}

(* datetime.timedelta(days=n) and datetime arithmetic on the tick clock *)
Days(n) == n * TicksPerDay

DateOf(t) == t \div TicksPerDay

DaysBetween(later, earlier) == (later - earlier) \div TicksPerDay

Min(a, b) == IF a <= b THEN a ELSE b

DB == [account |-> account, stats |-> stats, ledger |-> ledger]

(* ---- get_or_create_account: the rows of a new account ---- *)
NewAccount(t) ==
  [current_credits |-> DEFAULT_WEEKLY_CREDITS,
   total_earned |-> DEFAULT_WEEKLY_CREDITS,
   total_spent |-> 0,
   weekly_credit_limit |-> DEFAULT_WEEKLY_CREDITS,
   last_refill_at |-> t,
   next_refill_at |-> t + Days(CREDITS_REFILL_DAYS),
   admin_bonus_credits |-> 0]

NewStats(t) ==
  [credits_used_today |-> 0,
   micro_sessions_today |-> 0,
   coding_questions_today |-> 0,
   last_daily_reset |-> t,
   credits_used_this_week |-> 0,
   full_interviews_this_week |-> 0,
   project_ideas_this_week |-> 0,
   last_weekly_reset |-> t]

get_or_create_account(t) ==
  [account |-> NewAccount(t), stats |-> NewStats(t), ledger |-> <<>>]

CreditTransaction(type, amount, balance, activity) ==
  [transaction_type |-> type, amount |-> amount,
   balance_after |-> balance, activity_type |-> activity]

(* ---- check_and_refill ---- *)
RefillDue(a, t) == t >= a.next_refill_at

(* mutant: the next refill is scheduled from the old due time *)
NextRefillAt_FromSchedule(a, t) == a.next_refill_at + Days(CREDITS_REFILL_DAYS)

NextRefillAt(a, t) == t + Days(CREDITS_REFILL_DAYS)

RefilledBalance(a) ==
  Min(a.current_credits + a.weekly_credit_limit, a.weekly_credit_limit * 2)

check_and_refill(d, t) ==
  IF RefillDue(d.account, t)
  THEN LET a == d.account
           bal == RefilledBalance(a)
       IN [d EXCEPT
             !.account = [a EXCEPT !.current_credits = bal,
                                   !.total_earned = a.total_earned + a.weekly_credit_limit,
                                   !.last_refill_at = t,
                                   !.next_refill_at = NextRefillAt(a, t)],
             !.ledger = Append(d.ledger,
                          CreditTransaction("refill", a.weekly_credit_limit, bal, "weekly_refill"))]
  ELSE d

(* ---- reset_daily_stats_if_needed / reset_weekly_stats_if_needed ---- *)
(* mutant: the daily reset also fires on the day of the last reset *)
DailyResetDue_SameDay(s, t) == DateOf(s.last_daily_reset) <= DateOf(t)

DailyResetDue(s, t) == DateOf(s.last_daily_reset) < DateOf(t)

reset_daily_stats_if_needed(d, t) ==
  IF DailyResetDue(d.stats, t)
  THEN [d EXCEPT !.stats = [d.stats EXCEPT !.credits_used_today = 0,
                                           !.micro_sessions_today = 0,
                                           !.coding_questions_today = 0,
                                           !.last_daily_reset = t]]
  ELSE d

(* mutant: the weekly window closes only after the seventh day *)
WeeklyResetDue_AfterSevenDays(s, t) == DaysBetween(t, s.last_weekly_reset) > 7

WeeklyResetDue(s, t) == DaysBetween(t, s.last_weekly_reset) >= 7

reset_weekly_stats_if_needed(d, t) ==
  IF WeeklyResetDue(d.stats, t)
  THEN [d EXCEPT !.stats = [d.stats EXCEPT !.credits_used_this_week = 0,
                                           !.full_interviews_this_week = 0,
                                           !.project_ideas_this_week = 0,
                                           !.last_weekly_reset = t]]
  ELSE d

(* the lazy maintenance run at the start of check_eligibility and of
   get_account_summary *)
Maintain(d, t) ==
  reset_weekly_stats_if_needed(reset_daily_stats_if_needed(check_and_refill(d, t), t), t)

get_account_summary(d, t) == Maintain(d, t)

(* ---- check_eligibility ---- *)
ActivityCost(act) ==
  CASE act = "full_interview" -> FULL_MOCK_INTERVIEW_COST
    [] act = "micro_session" -> MICRO_SESSION_COST
    [] act = "coding_question" -> CODING_QUESTION_COST
    [] act = "project_idea" -> PROJECT_IDEA_COST
    [] OTHER -> 1

(* the early returns of the activity branches; the full_interview branch
   reads its limit and its counter and returns nothing *)
CapRejection(s, act) ==
  CASE act = "micro_session" /\ s.micro_sessions_today >= MAX_MICRO_SESSIONS_PER_DAY
         -> "Daily limit reached (micro-sessions today)"
    [] act = "coding_question" /\ s.coding_questions_today >= MAX_CODING_QUESTIONS_PER_DAY
         -> "Daily limit reached (coding questions today)"
    [] act = "project_idea" /\ s.project_ideas_this_week >= MAX_PROJECT_IDEAS_PER_WEEK
         -> "Weekly limit reached (project ideas this week)"
    [] OTHER -> "none"

(* mutant: only an empty balance counts as insufficient *)
InsufficientCredits_EmptyOnly(a, cost) == a.current_credits <= 0

InsufficientCredits(a, cost) == a.current_credits < cost

(* mutant: the cost of the operation is left out of the daily ceiling *)
DailyUsageExceeded_IgnoresCost(s, cost) == s.credits_used_today > MAX_DAILY_CREDITS_USAGE

DailyUsageExceeded(s, cost) == s.credits_used_today + cost > MAX_DAILY_CREDITS_USAGE

check_eligibility(d0, act, t) ==
  LET d == Maintain(d0, t)
      a == d.account
      s == d.stats
      cost == ActivityCost(act)
      days == DaysBetween(a.next_refill_at, t)
  IN  IF CapRejection(s, act) # "none"
      THEN [db |-> d, allowed |-> FALSE, reason |-> CapRejection(s, act),
            context |-> [credits |-> a.current_credits, limit_reached |-> TRUE]]
      ELSE IF InsufficientCredits(a, cost)
      THEN [db |-> d, allowed |-> FALSE, reason |-> "Insufficient credits",
            context |-> [credits |-> a.current_credits, cost |-> cost,
                         next_refill_days |-> days]]
      ELSE IF DailyUsageExceeded(s, cost)
      THEN [db |-> d, allowed |-> FALSE, reason |-> "Daily usage limit reached",
            context |-> [credits |-> a.current_credits, daily_limit_reached |-> TRUE]]
      ELSE [db |-> d, allowed |-> TRUE, reason |-> "Eligible",
            context |-> [credits |-> a.current_credits, cost |-> cost,
                         balance_after |-> a.current_credits - cost,
                         next_refill_days |-> days]]

(* ---- spend_credits ---- *)
(* mutant: a coding question is counted as a micro-session *)
SpendStats_WrongCounter(s, act, cost) ==
  LET s1 == [s EXCEPT !.credits_used_today = s.credits_used_today + cost,
                      !.credits_used_this_week = s.credits_used_this_week + cost]
  IN  CASE act = "full_interview"
             -> [s1 EXCEPT !.full_interviews_this_week = s.full_interviews_this_week + 1]
        [] act \in {"micro_session", "coding_question"}
             -> [s1 EXCEPT !.micro_sessions_today = s.micro_sessions_today + 1]
        [] act = "project_idea"
             -> [s1 EXCEPT !.project_ideas_this_week = s.project_ideas_this_week + 1]
        [] OTHER -> s1

SpendStats(s, act, cost) ==
  LET s1 == [s EXCEPT !.credits_used_today = s.credits_used_today + cost,
                      !.credits_used_this_week = s.credits_used_this_week + cost]
  IN  CASE act = "full_interview"
             -> [s1 EXCEPT !.full_interviews_this_week = s.full_interviews_this_week + 1]
        [] act = "micro_session"
             -> [s1 EXCEPT !.micro_sessions_today = s.micro_sessions_today + 1]
        [] act = "coding_question"
             -> [s1 EXCEPT !.coding_questions_today = s.coding_questions_today + 1]
        [] act = "project_idea"
             -> [s1 EXCEPT !.project_ideas_this_week = s.project_ideas_this_week + 1]
        [] OTHER -> s1

spend_credits(d, act, cost) ==
  LET a == d.account
      bal == a.current_credits - cost
  IN  [account |-> [a EXCEPT !.current_credits = bal,
                             !.total_spent = a.total_spent + cost],
       stats |-> SpendStats(d.stats, act, cost),
       ledger |-> Append(d.ledger, CreditTransaction("spend", 0 - cost, bal, act))]

(* ---- add_bonus_credits ---- *)
(* mutant: the transaction logs the balance read before the bonus *)
add_bonus_credits_StaleBalance(d, amount) ==
  LET a == d.account
      bal == a.current_credits + amount
  IN  [d EXCEPT
         !.account = [a EXCEPT !.current_credits = bal,
                               !.total_earned = a.total_earned + amount,
                               !.admin_bonus_credits = a.admin_bonus_credits + amount],
         !.ledger = Append(d.ledger,
                      CreditTransaction("bonus", amount, a.current_credits, "admin_adjustment"))]

add_bonus_credits(d, amount) ==
  LET a == d.account
      bal == a.current_credits + amount
  IN  [d EXCEPT
         !.account = [a EXCEPT !.current_credits = bal,
                               !.total_earned = a.total_earned + amount,
                               !.admin_bonus_credits = a.admin_bonus_credits + amount],
         !.ledger = Append(d.ledger,
                      CreditTransaction("bonus", amount, bal, "admin_adjustment"))]

(***************************************************************************)
(* Initial states: the account as created at tick 0, or the same account   *)
(* after a history of check_eligibility -> spend_credits pairs, each pair  *)
(* spending only when its check allowed it.                                *)
(***************************************************************************)
RECURSIVE RunPairs(_, _, _, _)
RunPairs(d, act, n, t) ==
  IF n = 0 THEN d
  ELSE LET res == check_eligibility(d, act, t)
       IN  IF res.allowed
           THEN RunPairs(spend_credits(res.db, act, res.context.cost), act, n - 1, t)
           ELSE res.db

(* a history is a sequence of runs: n pairs of one activity at tick t *)
RECURSIVE RunHistory(_, _)
RunHistory(d, h) ==
  IF h = <<>> THEN d
  ELSE RunHistory(RunPairs(d, Head(h).act, Head(h).n, Head(h).t), Tail(h))

Run(act, n, t) == [act |-> act, n |-> n, t |-> t]

Histories ==
  { <<>>,
    << Run("full_interview", 2, 0) >>,
    << Run("full_interview", 3, 0) >>,
    << Run("micro_session", MAX_MICRO_SESSIONS_PER_DAY - 1, 0) >>,
    << Run("coding_question", MAX_CODING_QUESTIONS_PER_DAY - 1, 0) >>,
    << Run("project_idea", MAX_PROJECT_IDEAS_PER_WEEK - 1, 0) >>,
    << Run("full_interview", 3, 0), Run("full_interview", 1, TicksPerDay),
       Run("micro_session", 10, TicksPerDay), Run("coding_question", 5, TicksPerDay) >> }

HistoryEnd(h) == IF h = <<>> THEN 0 ELSE h[Len(h)].t

NoResult == [allowed |-> FALSE, reason |-> "none", context |-> [credits |-> 0]]

Record(op, act, arg, res, pre) ==
  [op |-> op, act |-> act, arg |-> arg, res |-> res, pre |-> pre, at |-> now]

Init ==
  \E h \in Histories :
    LET d == RunHistory(get_or_create_account(0), h)
    IN  /\ now = HistoryEnd(h)
        /\ account = d.account
        /\ stats = d.stats
        /\ ledger = d.ledger
        /\ base = Len(d.ledger)
        /\ last = [op |-> "none", act |-> "none", arg |-> 0, res |-> NoResult,
                   pre |-> d, at |-> HistoryEnd(h)]
        /\ pc = [r \in Requests |-> "idle"]
        /\ req = [r \in Requests |->
                    [act |-> "none", cost |-> 0, before |-> d.account.current_credits]]
        /\ EngineIdle

(* the ledger variables of an account created at tick 0 and never used *)
LedgerNew ==
  LET d == get_or_create_account(0)
  IN  /\ now = 0
      /\ account = d.account
      /\ stats = d.stats
      /\ ledger = d.ledger
      /\ base = 0
      /\ last = [op |-> "none", act |-> "none", arg |-> 0, res |-> NoResult,
                 pre |-> d, at |-> 0]
      /\ pc = [r \in Requests |-> "idle"]
      /\ req = [r \in Requests |->
                  [act |-> "none", cost |-> 0, before |-> d.account.current_credits]]

(* the rows after an operation; the ledger of one run is explored up to
   MaxOps entries past its initial length *)
Store(d) ==
  /\ Len(d.ledger) - base <= MaxOps
  /\ account' = d.account
  /\ stats' = d.stats
  /\ ledger' = d.ledger

(* a request that has spent runs to its end: its refund is stored one entry
   past the explored ledger length *)
StoreRefund(d) ==
  /\ Len(d.ledger) - base <= MaxOps + 1
  /\ account' = d.account
  /\ stats' = d.stats
  /\ ledger' = d.ledger

AllIdle == \A r \in Requests : pc[r] = "idle"

(* ---- start_interview_session, step by step ---- *)
(* check_eligibility; a rejection is the 429 response *)
CheckStep(r, act) ==
  /\ pc[r] = "idle"
  /\ LET res == check_eligibility(DB, act, now)
     IN  /\ Store(res.db)
         /\ last' = Record("check", act, 0, [allowed |-> res.allowed, reason |-> res.reason,
                                             context |-> res.context], DB)
         /\ IF res.allowed
            THEN /\ pc' = [pc EXCEPT ![r] = "checked"]
                 /\ req' = [req EXCEPT ![r] = [act |-> act, cost |-> res.context.cost,
                                                before |-> account.current_credits]]
            ELSE UNCHANGED <<pc, req>>
  /\ UNCHANGED <<now, base>>
  /\ UNCHANGED engineVars

(* the 400 response that advises micro-practice after a low previous score *)
LowScoreAdvice(r) ==
  /\ pc[r] = "checked"
  /\ req[r].act = "full_interview"
  /\ pc' = [pc EXCEPT ![r] = "idle"]
  /\ UNCHANGED <<account, stats, ledger, now, req, last, base>>
  /\ UNCHANGED engineVars

SpendStep(r) ==
  /\ pc[r] = "checked"
  /\ Store(spend_credits(DB, req[r].act, req[r].cost))
  /\ last' = Record("spend", req[r].act, req[r].cost, NoResult, DB)
  /\ pc' = [pc EXCEPT ![r] = "spent"]
  /\ UNCHANGED <<now, req, base>>
  /\ UNCHANGED engineVars

QuestionsGenerated(r) ==
  /\ pc[r] = "spent"
  /\ pc' = [pc EXCEPT ![r] = "idle"]
  /\ UNCHANGED <<account, stats, ledger, now, req, last, base>>
  /\ UNCHANGED engineVars

(* mutant: the refund is the price of a micro session whatever was spent *)
RefundAmount_MicroPrice(cost) == MICRO_SESSION_COST

(* amount=cost of the refund call *)
RefundAmount(cost) == cost

(* reason=f"Refund for failed session generation: ..." of the refund call *)
RefundReason == "Refund for failed session generation"

(* mutant: the refund also takes the spend out of the usage statistics *)
Refund_UndoesUsage(d, cost) ==
  LET e == add_bonus_credits(d, RefundAmount(cost))
  IN  [e EXCEPT !.account.total_spent = @ - cost,
                !.stats.credits_used_today = @ - cost,
                !.stats.credits_used_this_week = @ - cost]

(* credit_service.add_bonus_credits(applicant_id, amount=cost, reason=...) *)
Refund(d, cost) == add_bonus_credits(d, RefundAmount(cost))

(* the except branch: refund through add_bonus_credits, then the 500 *)
GenerationFailed(r) ==
  /\ pc[r] = "spent"
  /\ req[r].act \in HandlerActivities
  /\ StoreRefund(Refund(DB, req[r].cost))
  /\ last' = Record("refund", req[r].act, req[r].cost,
                    [NoResult EXCEPT !.reason = RefundReason], DB)
  /\ pc' = [pc EXCEPT ![r] = "idle"]
  /\ UNCHANGED <<now, req, base>>
  /\ UNCHANGED engineVars

(* ---- the other endpoints of the ledger ---- *)
AdminAdjust(amount) ==
  /\ AllIdle
  /\ Store(add_bonus_credits(DB, amount))
  /\ last' = Record("bonus", "admin_adjustment", amount, NoResult, DB)
  /\ UNCHANGED <<now, pc, req, base>>
  /\ UNCHANGED engineVars

AwardLearningBonus ==
  /\ AllIdle
  /\ Store(add_bonus_credits(DB, LEARNING_BONUS))
  /\ last' = Record("bonus", "improvement", LEARNING_BONUS, NoResult, DB)
  /\ UNCHANGED <<now, pc, req, base>>
  /\ UNCHANGED engineVars

GetCreditBalance ==
  /\ AllIdle
  /\ Store(get_account_summary(DB, now))
  /\ last' = Record("summary", "none", 0, NoResult, DB)
  /\ UNCHANGED <<now, pc, req, base>>
  /\ UNCHANGED engineVars

(* ---- the clock ---- *)
(* the clock is sampled at the first ticks of every refill period *)
Instants == { t \in 0..MaxNow : t % Days(CREDITS_REFILL_DAYS) <= SubTicks }

Tick(t) ==
  /\ t > now
  /\ now' = t
  /\ last' = [op |-> "tick", act |-> "none", arg |-> 0, res |-> NoResult,
              pre |-> DB, at |-> t]
  /\ UNCHANGED <<account, stats, ledger, pc, req, base>>
  /\ UNCHANGED engineVars

AdminAmounts == {0 - MaxAdjust, MaxAdjust}

(* one request at a time *)
Next ==
  \/ \E act \in ActivityTypes : CheckStep(1, act)
  \/ LowScoreAdvice(1)
  \/ SpendStep(1)
  \/ QuestionsGenerated(1)
  \/ GenerationFailed(1)
  \/ \E amount \in AdminAmounts : AdminAdjust(amount)
  \/ AwardLearningBonus
  \/ GetCreditBalance
  \/ \E t \in Instants : Tick(t)

Spec == Init /\ [][Next]_vars

(* two requests of the same applicant, interleaved as the web framework
   runs them: no lock or serializable transaction spans check and spend *)
NextConc ==
  \/ \E r \in Requests, act \in HandlerActivities : CheckStep(r, act)
  \/ \E r \in Requests : LowScoreAdvice(r)
  \/ \E r \in Requests : SpendStep(r)
  \/ \E r \in Requests : QuestionsGenerated(r)
  \/ \E t \in Instants : Tick(t)

SpecConc == Init /\ [][NextConc]_vars

TypeOK ==
  /\ now \in 0..MaxNow
  /\ pc \in [Requests -> {"idle", "checked", "spent"}]
  /\ Len(ledger) - base \in 0..(MaxOps + 1)

(***************************************************************************)
(* Properties of the credit ledger                                         *)
(***************************************************************************)
Balance == account.current_credits

IsPrefix(p, q) == Len(p) <= Len(q) /\ SubSeq(q, 1, Len(p)) = p

Counter(s, act) ==
  CASE act = "full_interview" -> s.full_interviews_this_week
    [] act = "micro_session" -> s.micro_sessions_today
    [] act = "coding_question" -> s.coding_questions_today
    [] act = "project_idea" -> s.project_ideas_this_week
    [] OTHER -> 0

Cap(act) ==
  CASE act = "full_interview" -> 4
    [] act = "micro_session" -> 10
    [] act = "coding_question" -> 10
    [] act = "project_idea" -> 10
    [] OTHER -> 1

CappedActivities == {"full_interview", "micro_session", "coding_question", "project_idea"}

(* C1: with every spend preceded by an allowing check of the same activity,
   the balance is never below 0 in any reachable state of the ledger.
   Violated: a negative admin adjustment is added to the balance as is. *)
C1_BalanceNonNegative == Balance >= 0

(* C2: the check-then-spend pair of a request is atomic per account: what a
   request's check established (balance covers the cost, the daily ceiling
   has room for it) still holds until that request spends, so the balance
   never goes below 0 and the daily ceiling is never passed.
   Violated: two requests both pass the check, then both spend. *)
C2_CheckSpendAtomic ==
  /\ \A r \in Requests :
       pc[r] = "checked" =>
         /\ Balance >= req[r].cost
         /\ stats.credits_used_today + req[r].cost <= 30
  /\ Balance >= 0
  /\ stats.credits_used_today <= 30
  /\ stats.micro_sessions_today <= 10

(* C3: after any sequence of spend, refill and bonus operations the balance
   is at most twice the weekly limit.
   Violated: add_bonus_credits adds the amount without the cap. *)
C3_AccumulationCap == Balance <= 2 * account.weekly_credit_limit

(* C4: a check_and_refill that runs at or after next_refill_at applies exactly
   one weekly allotment however late it runs: the balance becomes
   min(balance + weekly limit, 2 * weekly limit), last_refill_at becomes now,
   next_refill_at becomes now + 7 days, one 'refill' transaction is logged;
   a run before next_refill_at changes neither the account nor the ledger,
   so right after a run the next refill is in the future. *)
C4_RefillOnce ==
  last.op \in {"check", "summary"} =>
    LET p == last.pre.account
        w == p.weekly_credit_limit
        capped == IF p.current_credits + w <= 2 * w THEN p.current_credits + w ELSE 2 * w
    IN  /\ last.at >= p.next_refill_at =>
             /\ Balance = capped
             /\ account.total_earned = p.total_earned + w
             /\ account.last_refill_at = last.at
             /\ account.next_refill_at = last.at + 7 * TicksPerDay
             /\ ledger = Append(last.pre.ledger,
                           [transaction_type |-> "refill", amount |-> w,
                            balance_after |-> capped, activity_type |-> "weekly_refill"])
        /\ last.at < p.next_refill_at =>
             /\ account = p
             /\ ledger = last.pre.ledger
        /\ last.at < account.next_refill_at

(* witness of C4: a check that ran two or more refill periods late *)
C4_Witness ==
  /\ last.op = "check"
  /\ last.at >= last.pre.account.next_refill_at + 7 * TicksPerDay
  /\ Len(ledger) = Len(last.pre.ledger) + 1

(* C5: check_eligibility is a reservation check: it never changes total_spent,
   it changes the account and the ledger only by an overdue refill, the daily
   counters only by a daily reset and the weekly counters only by a weekly
   reset; with no refill due and no window rolled over, the account, the
   usage stats and the ledger are unchanged, allowed or not. *)
C5_CheckIsReservation ==
  last.op = "check" =>
    LET p == last.pre
        refillDue == last.at >= p.account.next_refill_at
        newDay == (p.stats.last_daily_reset \div TicksPerDay) < (last.at \div TicksPerDay)
        newWeek == ((last.at - p.stats.last_weekly_reset) \div TicksPerDay) >= 7
    IN  /\ account.total_spent = p.account.total_spent
        /\ ~refillDue => account = p.account /\ ledger = p.ledger
        /\ refillDue => /\ Len(ledger) = Len(p.ledger) + 1
                        /\ SubSeq(ledger, 1, Len(p.ledger)) = p.ledger
                        /\ ledger[Len(ledger)].transaction_type = "refill"
        /\ ~newDay => /\ stats.credits_used_today = p.stats.credits_used_today
                      /\ stats.micro_sessions_today = p.stats.micro_sessions_today
                      /\ stats.coding_questions_today = p.stats.coding_questions_today
                      /\ stats.last_daily_reset = p.stats.last_daily_reset
        /\ ~newWeek => /\ stats.credits_used_this_week = p.stats.credits_used_this_week
                       /\ stats.full_interviews_this_week = p.stats.full_interviews_this_week
                       /\ stats.project_ideas_this_week = p.stats.project_ideas_this_week
                       /\ stats.last_weekly_reset = p.stats.last_weekly_reset
        /\ (~refillDue /\ ~newDay /\ ~newWeek) => DB = p

(* witness of C5: an allowing check, after earlier spending, that left the
   account, the stats and the ledger as they were *)
C5_Witness ==
  /\ last.op = "check"
  /\ last.res.allowed
  /\ stats.credits_used_today > 0
  /\ DB = last.pre

(* C6: check_eligibility rejects an activity whose counter has reached its cap
   (4 full interviews a week, 10 micro-sessions a day, 10 coding questions a
   day, 10 project ideas a week), so no counter exceeds its cap.
   Violated: the full_interview branch never compares its counter. *)
C6_ActivityCaps ==
  /\ \A act \in CappedActivities : Counter(stats, act) <= Cap(act)
  /\ (last.op = "check" /\ last.act \in CappedActivities
        /\ Counter(stats, last.act) >= Cap(last.act)) => ~last.res.allowed

(* C7: check_eligibility rejects whenever credits_used_today + cost would
   exceed 30, whatever the balance, so credits_used_today never exceeds 30. *)
C7_DailyCeiling ==
  /\ stats.credits_used_today <= 30
  /\ (last.op = "check" /\ stats.credits_used_today + ActivityCost(last.act) > 30)
       => ~last.res.allowed

(* witness of C7: a check rejected by the daily ceiling although the balance
   covers the cost *)
C7_Witness ==
  /\ last.op = "check"
  /\ last.res.reason = "Daily usage limit reached"
  /\ Balance >= 40
  /\ stats.credits_used_today = 30

(* C8: with no per-activity cap reached and a balance below the cost,
   check_eligibility rejects with 'Insufficient credits' and a context that
   holds the cost and the current credits, and deducts nothing. *)
C8_InsufficientCredits ==
  (/\ last.op = "check"
   /\ (last.act \in CappedActivities => Counter(stats, last.act) < Cap(last.act))
   /\ Balance < ActivityCost(last.act))
  => /\ ~last.res.allowed
     /\ last.res.reason = "Insufficient credits"
     /\ last.res.context.cost = ActivityCost(last.act)
     /\ last.res.context.credits = Balance
     /\ last.at < last.pre.account.next_refill_at => Balance = last.pre.account.current_credits

(* witness of C8: 5 credits, a full interview asked for *)
C8_Witness ==
  /\ last.op = "check"
  /\ last.act = "full_interview"
  /\ last.res.reason = "Insufficient credits"
  /\ last.res.context.cost = 10
  /\ last.res.context.credits = 5
  /\ Balance = 5

(* C9: spend_credits(activity, cost) deducts cost from the balance and adds it
   to total_spent, credits_used_today and credits_used_this_week, increments
   by one the counter of the activity and no other counter, and appends one
   'spend' transaction of amount -cost; it validates nothing. *)
C9_SpendEffect ==
  last.op = "spend" =>
    LET p == last.pre
        c == last.arg
    IN  /\ Balance = p.account.current_credits - c
        /\ account.total_spent = p.account.total_spent + c
        /\ account.total_earned = p.account.total_earned
        /\ stats.credits_used_today = p.stats.credits_used_today + c
        /\ stats.credits_used_this_week = p.stats.credits_used_this_week + c
        /\ \A act \in CappedActivities :
             Counter(stats, act) = Counter(p.stats, act) + (IF act = last.act THEN 1 ELSE 0)
        /\ ledger = Append(p.ledger,
                      [transaction_type |-> "spend", amount |-> 0 - c,
                       balance_after |-> p.account.current_credits - c,
                       activity_type |-> last.act])

(* witness of C9: a coding question spent *)
C9_Witness ==
  /\ last.op = "spend"
  /\ last.act = "coding_question"
  /\ stats.coding_questions_today = last.pre.stats.coding_questions_today + 1

(* C10: every step that changes the account (spend, refill, bonus) appends
   exactly one transaction whose balance_after is the balance right after the
   step; no step removes or rewrites an entry of the ledger. *)
C10_AppendOnlyLedger ==
  [][ /\ IsPrefix(ledger, ledger')
      /\ Len(ledger') <= Len(ledger) + 1
      /\ account' # account => Len(ledger') = Len(ledger) + 1
      /\ Len(ledger') = Len(ledger) + 1 =>
           ledger'[Len(ledger')].balance_after = account'.current_credits ]_vars

(* witness of C10: a bonus logged on top of earlier entries *)
C10_Witness ==
  /\ last.op = "bonus"
  /\ Len(ledger) >= 2
  /\ ledger[Len(ledger)].transaction_type = "bonus"
  /\ ledger[Len(ledger)].balance_after = Balance

(* C11, as stated: after a request whose question generation failed, the
   balance equals its value before the request.
   Violated: the request's eligibility check applies the weekly refill that
   was due, so the balance ends one allotment above its value before. *)
C11_RefundRestoresRequestStart ==
  last.op = "refund" =>
    \E r \in Requests :
      /\ req[r].act = last.act
      /\ Balance = req[r].before

(* C11: when question generation fails after the spend, the handler refunds
   the spent cost through add_bonus_credits with a reason that describes the
   refund: one 'bonus' transaction of the spent cost follows the 'spend'
   transaction, and the balance equals its value right before the spend,
   which is the value before the request plus the weekly refill that the
   request's eligibility check applied when one was due. *)
C11_RefundRestores ==
  last.op = "refund" =>
    LET n == Len(ledger)
        cost == IF last.act = "full_interview" THEN 10 ELSE 1
    IN  /\ n >= 2
        /\ last.res.reason = "Refund for failed session generation"
        /\ ledger[n - 1].transaction_type = "spend"
        /\ ledger[n - 1].amount = 0 - cost
        /\ ledger[n].transaction_type = "bonus"
        /\ ledger[n].amount = cost
        /\ Balance = ledger[n - 1].balance_after + cost
        /\ Balance = ledger[n].balance_after
        /\ \E r \in Requests :
             /\ req[r].act = last.act
             /\ \/ Balance = req[r].before
                \/ Balance = Min(req[r].before + account.weekly_credit_limit,
                                 2 * account.weekly_credit_limit)

(* witness of C11: a failed full interview whose check had applied a refill *)
C11_Witness ==
  /\ last.op = "refund"
  /\ last.act = "full_interview"
  /\ Balance = req[1].before + account.weekly_credit_limit
  /\ ledger[Len(ledger)].amount = FULL_MOCK_INTERVIEW_COST

(* C12: add_bonus_credits succeeds for every amount its callers pass (system
   refund, improvement bonus, admin adjustment), increases the balance and
   total_earned, and logs one 'bonus' transaction.
   Violated: an admin adjustment with a negative amount is added as is, so
   the balance and total_earned decrease. *)
C12_BonusIncreases ==
  last.op \in {"bonus", "refund"} =>
    /\ Balance > last.pre.account.current_credits
    /\ account.total_earned > last.pre.account.total_earned
    /\ Len(ledger) = Len(last.pre.ledger) + 1
    /\ ledger[Len(ledger)].transaction_type = "bonus"

(***************************************************************************)
(* Skill matching of the recommendation runs.  A skill name is the         *)
(* sequence of its characters.                                             *)
(***************************************************************************)
UpperCase ==
  <<"A", "B", "C", "D", "E", "F", "G", "H", "I", "J", "K", "L", "M",
    "N", "O", "P", "Q", "R", "S", "T", "U", "V", "W", "X", "Y", "Z">>

LowerCase ==
  <<"a", "b", "c", "d", "e", "f", "g", "h", "i", "j", "k", "l", "m",
    "n", "o", "p", "q", "r", "s", "t", "u", "v", "w", "x", "y", "z">>

Digits == {"0", "1", "2", "3", "4", "5", "6", "7", "8", "9"}

Letters == 1..Len(UpperCase)

(* str.lower, one character *)
LowerChar(c) ==
  IF \E i \in Letters : UpperCase[i] = c
  THEN LowerCase[CHOOSE i \in Letters : UpperCase[i] = c]
  ELSE c

(* str.lower *)
Lower(s) == [i \in 1..Len(s) |-> LowerChar(s[i])]

(* the characters the regular expression class \w accepts *)
IsWordChar(c) ==
  \/ \E i \in Letters : c \in {UpperCase[i], LowerCase[i]}
  \/ c \in Digits
  \/ c = "_"

WordAt(s, k) == k \in 1..Len(s) /\ IsWordChar(s[k])

(* the regular expression \b in front of the k-th character of s: exactly
   one of the characters on its two sides is a word character *)
WordBoundary(s, k) == WordAt(s, k - 1) # WordAt(s, k)

(* re.search(r'\b' + re.escape(p) + r'\b', s) *)
re_search(p, s) ==
  \E i \in 1..(Len(s) - Len(p) + 1) :
    /\ SubSeq(s, i, i + Len(p) - 1) = p
    /\ WordBoundary(s, i)
    /\ WordBoundary(s, i + Len(p))

(* one required name against the applicant's skill names *)
SkillMatches(req_name, names) ==
  IF Len(req_name) >= 3
  THEN \E k \in 1..Len(names) : re_search(Lower(req_name), Lower(names[k]))
  ELSE \E k \in 1..Len(names) : Lower(req_name) = Lower(names[k])

(* matched_skills: the set of the required names that match *)
MatchedSkills(reqs, names) ==
  { reqs[i] : i \in { j \in 1..Len(reqs) :
                        Len(reqs[j]) > 0 /\ SkillMatches(reqs[j], names) } }

(* ---- the matching applied to every short name over a small alphabet ---- *)
MaxReqLen == 3
MaxSkillLen == 4

Alphabet == {"c", "C", "+", " "}

Names(n) == UNION { [1..k -> Alphabet] : k \in 0..n }

InitMatch ==
  /\ LedgerNew
  /\ applicant = [exists |-> TRUE, llm_record |-> FALSE,
                  jee_rank |-> None, grade |-> None, skills |-> <<>>,
                  sessions |-> {}, assessments |-> <<>>]
  /\ college_recs = <<>>
  /\ job_recs = <<>>
  /\ resp = NoResponse
  /\ matched = {}
  /\ \E r \in Names(MaxReqLen) \ {<<>>}, sn \in Names(MaxSkillLen) :
       /\ required = <<r>>
       /\ skill_names \in {<<sn>>, <<sn, sn>>}

MatchRequired ==
  /\ resp.path = "none"
  /\ matched' = MatchedSkills(required, skill_names)
  /\ resp' = [resp EXCEPT !.path = "match"]
  /\ UNCHANGED <<ledgerVars, applicant, college_recs, job_recs, required, skill_names>>

NextMatch == MatchRequired

SpecMatch == InitMatch /\ [][NextMatch]_vars

(* p occurs in s as a whole word: no word character on either side *)
ContainsWholeWord(p, s) ==
  \E i \in 1..(Len(s) - Len(p) + 1) :
    /\ SubSeq(s, i, i + Len(p) - 1) = p
    /\ ~WordAt(s, i - 1)
    /\ ~WordAt(s, i + Len(p))

(* C14: a required name of at least 3 characters matches iff some applicant
   skill name contains it as a whole word, case-insensitively; a shorter
   required name matches only on case-insensitive equality; a required name
   counts once however many applicant skills it matches.
   Violated: the pattern puts \b on both sides of the name, and \b next to a
   character that is no word character asks for a word character on its
   other side, so required "c++" never matches the applicant skill "c++". *)
C14_WholeWordMatch ==
  resp.path = "match" =>
    /\ \A i \in 1..Len(required) :
         LET r == required[i]
         IN  /\ Len(r) >= 3 =>
                  (r \in matched <=>
                     \E k \in 1..Len(skill_names) :
                       ContainsWholeWord(Lower(r), Lower(skill_names[k])))
             /\ Len(r) \in 1..2 =>
                  (r \in matched <=>
                     \E k \in 1..Len(skill_names) : Lower(r) = Lower(skill_names[k]))
    /\ Cardinality(matched) <= Len(required)

(***************************************************************************)
(* The recommendation runs of one applicant: the generate endpoint and the *)
(* run at the end of parse_applicant.                                      *)
(***************************************************************************)
(* scores are fixed-point numbers: Unit stands for 1.0; grades are in
   tenths (85 stands for 8.5) *)
Unit == 6000

(* round(x, 2) *)
Round2(x) == ((x + Unit \div 200) \div (Unit \div 100)) * (Unit \div 100)

Max(a, b) == IF a >= b THEN a ELSE b

(* RECOMMENDATION_WEIGHTS, INTERVIEW_CONFIG *)
JEE_RANK_SCORE == 35
CGPA_SCORE == 25
SKILLS_SCORE == 25
INTERVIEW_SCORE == 15
ACADEMIC_SCORE == 20
EXPERIENCE_SCORE == 20
ASSESSMENT_SCORE == 10
MIN_JOB_RECOMMENDATION_SCORE == 35
SCORE_FRESHNESS_MONTHS == 6

(* INTERVIEW_SCORE_MULTIPLIERS, in hundredths *)
INTERVIEW_SCORE_MULTIPLIERS == [excellent |-> 100, good |-> 67, average |-> 33, poor |-> 0]

(* the multipliers written in parse_applicant, in hundredths *)
ParseMultipliers == [excellent |-> 150, good |-> 100, average |-> 50, poor |-> 0]

(* an optional number that an `if x` takes as true *)
Truthy(x) == x # None /\ x # 0

(* ---- the catalog: colleges, their eligibility rows and programs, jobs ---- *)
Skill ==
  [Python |-> <<"P", "y", "t", "h", "o", "n">>,
   Django |-> <<"D", "j", "a", "n", "g", "o">>,
   SQL |-> <<"S", "Q", "L">>,
   sql |-> <<"s", "q", "l">>,
   Java |-> <<"J", "a", "v", "a">>,
   java |-> <<"j", "a", "v", "a">>,
   JavaScript |-> <<"J", "a", "v", "a", "S", "c", "r", "i", "p", "t">>,
   CoreJava |-> <<"C", "o", "r", "e", " ", "J", "a", "v", "a">>,
   Cpp |-> <<"C", "+", "+">>,
   React |-> <<"R", "e", "a", "c", "t">>,
   Go |-> <<"G", "o">>,
   go |-> <<"g", "o">>,
   Golang |-> <<"G", "o", "l", "a", "n", "g">>,
   AWS |-> <<"A", "W", "S">>]

Colleges == {1, 2, 3, 4}

(* college_id is no unique column: college 3 has two eligibility rows *)
CollegeEligibilityRows ==
  << [college_id |-> 1, min_jee_rank |-> 3000, min_cgpa |-> 80],
     [college_id |-> 2, min_jee_rank |-> None, min_cgpa |-> 75],
     [college_id |-> 3, min_jee_rank |-> 5000, min_cgpa |-> None],
     [college_id |-> 3, min_jee_rank |-> 5000, min_cgpa |-> None] >>

CollegePrograms ==
  { [id |-> 1, college_id |-> 1, status |-> "approved",
     required_skills |-> <<Skill.Python, Skill.SQL>>],
    [id |-> 2, college_id |-> 2, status |-> "approved",
     required_skills |-> <<Skill.java, Skill.Cpp>>],
    [id |-> 3, college_id |-> 2, status |-> "pending",
     required_skills |-> <<Skill.Django>>],
    [id |-> 4, college_id |-> 3, status |-> "approved",
     required_skills |-> <<Skill.Python, Skill.Java, Skill.SQL>>],
    [id |-> 5, college_id |-> 3, status |-> "approved",
     required_skills |-> <<Skill.Java, Skill.React, Skill.Go, Skill.AWS>>],
    [id |-> 6, college_id |-> 4, status |-> "approved",
     required_skills |-> <<Skill.Python>>] }

(* required_skills <<>> stands for None and for the empty list, which the
   runs treat alike; expires_at is in days from the utcnow of the run, None
   when the posting has no expiry *)
Jobs ==
  << [id |-> 1, status |-> "approved", min_cgpa |-> None,
      required_skills |-> <<Skill.Python, Skill.Java, Skill.SQL>>,
      min_experience_years |-> 0, expires_at |-> None],
     [id |-> 2, status |-> "approved", min_cgpa |-> 80,
      required_skills |-> <<Skill.java>>, min_experience_years |-> 2,
      expires_at |-> None],
     [id |-> 3, status |-> "approved", min_cgpa |-> 70,
      required_skills |-> <<>>, min_experience_years |-> None,
      expires_at |-> 30],
     [id |-> 4, status |-> "pending", min_cgpa |-> None,
      required_skills |-> <<Skill.Python>>, min_experience_years |-> 0,
      expires_at |-> None],
     [id |-> 5, status |-> "approved", min_cgpa |-> 70,
      required_skills |-> <<>>, min_experience_years |-> None,
      expires_at |-> 0 - 30] >>

(* ---- the applicant's parsed record, sessions and assessments ---- *)
JeeRanks == {None, 2500, 4000}

Grades == {None, 0, 75, 85}

SkillLists ==
  { <<>>,
    <<Skill.Python, Skill.Django>>,
    <<Skill.JavaScript, Skill.Golang>>,
    <<Skill.CoreJava, Skill.Cpp>>,
    <<Skill.Python, Skill.CoreJava, Skill.sql, Skill.React, Skill.go, Skill.AWS>> }

Session(status, score, days) ==
  [status |-> status, overall_score |-> score, days_ago |-> days]

SessionSets ==
  { {},
    {Session("completed", 95, 181)},
    {Session("completed", 95, 180)},
    {Session("completed", 95, 179)},
    {Session("completed", 70, 10)},
    {Session("completed", 45, 10)},
    {Session("completed", 30, 10), Session("completed", 95, 200)},
    {Session("completed", 95, 200), Session("completed", None, 10),
     Session("in_progress", 85, 5)} }

AssessmentLists == { <<>>, <<75>>, <<65, 90>>, <<70, 70, 80, 90, 95, 100>> }

Applicants ==
  [exists : {TRUE}, llm_record : {TRUE},
   jee_rank : JeeRanks, grade : Grades, skills : SkillLists,
   sessions : SessionSets, assessments : AssessmentLists]

(* ---- interview bonus ---- *)
(* the filter and order_by(desc(completed_at)).first() *)
Scored(a) == { s \in a.sessions : s.status = "completed" /\ s.overall_score # None }

LatestInterview(a) ==
  CHOOSE s \in Scored(a) : \A t \in Scored(a) : s.days_ago <= t.days_ago

(* mutant: whole months, with the sixth month still fresh *)
IsFresh_WholeMonths(days) == days \div 30 <= SCORE_FRESHNESS_MONTHS

(* (utcnow - completed_at).days / 30 < SCORE_FRESHNESS_MONTHS *)
IsFresh(days) == days < SCORE_FRESHNESS_MONTHS * 30

MultiplierKey(score) ==
  IF score >= 80 THEN "excellent"
  ELSE IF score >= 60 THEN "good"
  ELSE IF score >= 40 THEN "average"
  ELSE "poor"

InterviewBonus(path, a) ==
  IF Scored(a) = {} \/ ~IsFresh(LatestInterview(a).days_ago) THEN 0
  ELSE LET m == IF path = "parse" THEN ParseMultipliers ELSE INTERVIEW_SCORE_MULTIPLIERS
       IN  (INTERVIEW_SCORE * Unit * m[MultiplierKey(LatestInterview(a).overall_score)]) \div 100

(* ---- assessment bonus ---- *)
AssessmentBonus(a) ==
  LET n == Cardinality({ i \in 1..Len(a.assessments) : a.assessments[i] >= 70 })
  IN  IF n = 0 THEN 0 ELSE Min(ASSESSMENT_SCORE, n * 2) * Unit

(* ---- colleges ---- *)
(* the outer join of colleges and eligibility rows: one row per eligibility
   row, and one row without eligibility per college that has none *)
ToSeq(S) ==
  LET n == Cardinality(S)
      f == CHOOSE g \in [1..n -> S] : \A i, j \in 1..n : i < j => g[i] < g[j]
  IN  [i \in 1..n |-> f[i]]

(* a query without ORDER BY returns its rows in an order the database
   chooses: by ascending id or the other way round *)
ReadOrders == {"asc", "desc"}

Reverse(s) == [i \in 1..Len(s) |-> s[Len(s) + 1 - i]]

ReadIn(order, s) == IF order = "asc" THEN s ELSE Reverse(s)

CollegeJoin ==
  LET bare == ToSeq({ c \in Colleges :
                       \A i \in 1..Len(CollegeEligibilityRows) :
                         CollegeEligibilityRows[i].college_id # c })
  IN  [i \in 1..Len(CollegeEligibilityRows) |->
         [eligibility |-> TRUE,
          college_id |-> CollegeEligibilityRows[i].college_id,
          min_jee_rank |-> CollegeEligibilityRows[i].min_jee_rank,
          min_cgpa |-> CollegeEligibilityRows[i].min_cgpa]]
      \o [i \in 1..Len(bare) |->
            [eligibility |-> FALSE, college_id |-> bare[i],
             min_jee_rank |-> None, min_cgpa |-> None]]

(* the filter of the join *)
Prefilter(a, row) ==
  /\ \/ row.min_cgpa = None
     \/ IF Truthy(a.grade) THEN row.min_cgpa <= a.grade ELSE TRUE
  /\ \/ row.min_jee_rank = None
     \/ IF Truthy(a.jee_rank) THEN row.min_jee_rank >= a.jee_rank ELSE TRUE

(* matched_skills over the approved programs of a college *)
CollegeMatched(a, c) ==
  IF a.skills = <<>> THEN {}
  ELSE UNION { MatchedSkills(p.required_skills, a.skills) :
               p \in { q \in CollegePrograms : q.college_id = c /\ q.status = "approved" } }

(* mutant: 5 points per matched skill without the cap *)
CollegeSkillScore_NoCap(n) == n * 5 * Unit

CollegeSkillScore(n) == Min(SKILLS_SCORE, n * 5) * Unit

(* one pass of the college loop; skip stands for `continue` *)
ScoreCollege(a, row, ib, ab) ==
  LET rank_checked == Truthy(row.min_jee_rank) /\ Truthy(a.jee_rank)
      grade_checked == Truthy(row.min_cgpa) /\ Truthy(a.grade)
      n == Cardinality(CollegeMatched(a, row.college_id))
      score == (IF rank_checked THEN JEE_RANK_SCORE * Unit ELSE 0)
               + (IF grade_checked THEN CGPA_SCORE * Unit ELSE 0)
               + (IF n > 0 THEN CollegeSkillScore(n) ELSE 0)
               + (IF ib > 0 THEN ib \div 2 ELSE 0)
               + ab
      reasons == (IF rank_checked THEN <<"jee_rank">> ELSE <<>>)
                 \o (IF grade_checked THEN <<"cgpa">> ELSE <<>>)
                 \o (IF n > 0 THEN <<"skills">> ELSE <<>>)
                 \o (IF ib > 0 THEN <<"interview">> ELSE <<>>)
                 \o (IF ab > 0 THEN <<"assessment">> ELSE <<>>)
      skip == \/ ~row.eligibility
              \/ rank_checked /\ a.jee_rank > row.min_jee_rank
              \/ grade_checked /\ a.grade < row.min_cgpa
  IN  [stored |-> ~skip /\ score > 0, college_id |-> row.college_id,
       recommend_score |-> score, matched |-> n, reasons |-> reasons]

CollegeResults(path, a, order) ==
  LET rows == SelectSeq(ReadIn(order, CollegeJoin), LAMBDA row : Prefilter(a, row))
      all == [i \in 1..Len(rows) |->
                ScoreCollege(a, rows[i], InterviewBonus(path, a), AssessmentBonus(a))]
      kept == SelectSeq(all, LAMBDA r : r.stored)
  IN  [i \in 1..Len(kept) |->
         [college_id |-> kept[i].college_id, recommend_score |-> kept[i].recommend_score,
          matched |-> kept[i].matched, reasons |-> kept[i].reasons, via |-> path]]

(* ---- jobs ---- *)
(* mutant: the points of the matched names, whatever the job requires *)
JobSkillScore_PerMatch(m, n) == m * 5 * Unit

(* (len(matched_skills) / max(len(required), 1)) * 50 *)
JobSkillScore(m, n) == (m * 50 * Unit) \div Max(n, 1)

(* one pass of the job loop of a run; skip stands for `continue` *)
ScoreJob(path, a, job, ib, ab) ==
  LET cutoff == job.min_cgpa # None /\ a.grade # None
      academic == IF cutoff THEN ACADEMIC_SCORE * Unit ELSE (ACADEMIC_SCORE * Unit) \div 2
      m == IF a.skills = <<>> THEN 0
           ELSE Cardinality(MatchedSkills(job.required_skills, a.skills))
      skill == IF m > 0 THEN JobSkillScore(m, Len(job.required_skills)) ELSE 0
      min_exp == job.min_experience_years
      experience == IF path = "parse"
                    THEN (IF min_exp # None /\ min_exp > 0 THEN 5 * Unit ELSE 0)
                    ELSE (IF min_exp = None \/ min_exp = 0 THEN EXPERIENCE_SCORE * Unit ELSE 0)
      score == academic + skill + experience + ib + ab
      skip == cutoff /\ a.grade < job.min_cgpa
  IN  [stored |-> /\ ~skip
                  /\ IF path = "parse" THEN score > 0
                     ELSE score >= MIN_JOB_RECOMMENDATION_SCORE * Unit,
       job_id |-> job.id,
       score |-> IF path = "parse" THEN score ELSE Round2(score),
       scoring_breakdown |->
         IF path = "parse"
         THEN [skill_score |-> 0, academic_score |-> 0, experience_score |-> 0,
               interview_score |-> ib, assessment_score |-> ab]
         ELSE [skill_score |-> Round2(skill), academic_score |-> academic,
               experience_score |-> experience,
               interview_score |-> ib, assessment_score |-> ab]]

JobResults(path, a, order) ==
  LET rows == SelectSeq(ReadIn(order, Jobs), LAMBDA job : job.status = "approved")
      all == [i \in 1..Len(rows) |->
                ScoreJob(path, a, rows[i], InterviewBonus(path, a), AssessmentBonus(a))]
      kept == SelectSeq(all, LAMBDA r : r.stored)
  IN  [i \in 1..Len(kept) |->
         [job_id |-> kept[i].job_id, score |-> kept[i].score,
          scoring_breakdown |-> kept[i].scoring_breakdown, via |-> path]]

(* ---- the response of the generate endpoint ---- *)
(* sorted(rows, key=score, reverse=True): a stable sort *)
RECURSIVE SortedByScore(_)
SortedByScore(s) ==
  IF s = <<>> THEN <<>>
  ELSE LET x == Head(s)
           t == SortedByScore(Tail(s))
           k == Cardinality({ i \in 1..Len(t) : t[i].score > x.score })
       IN  SubSeq(t, 1, k) \o <<x>> \o SubSeq(t, k + 1, Len(t))

Top10(s) == SubSeq(s, 1, Min(Len(s), 10))

CollegeResponse(rows) ==
  Top10(SortedByScore([i \in 1..Len(rows) |->
                         [college_id |-> rows[i].college_id,
                          score |-> Round2(rows[i].recommend_score),
                          reasons |-> rows[i].reasons]]))

JobResponse(rows) ==
  Top10(SortedByScore([i \in 1..Len(rows) |->
                         [job_id |-> rows[i].job_id, score |-> rows[i].score,
                          breakdown |-> rows[i].scoring_breakdown]]))

(* ---- the runs ---- *)
(* the recommendation rows of the applicant *)
Rows == [college_recs |-> college_recs, job_recs |-> job_recs]

(* the 404 and the 400 at the head of the generate endpoint *)
GenerateError(a) ==
  IF ~a.exists THEN "not_found"
  ELSE IF ~a.llm_record THEN "no_parsed_data"
  ELSE "none"

(* the dictionary the generate endpoint returns *)
GenerateResponse(a, colleges, jobs) ==
  [path |-> "generate",
   interview_bonus |-> InterviewBonus("generate", a),
   assessment_bonus |-> AssessmentBonus(a),
   colleges |-> CollegeResponse(colleges),
   jobs |-> JobResponse(jobs)]

InitRec ==
  /\ LedgerNew
  /\ applicant \in Applicants
  /\ college_recs = <<>>
  /\ job_recs = <<>>
  /\ resp = NoResponse
  /\ required = <<>>
  /\ skill_names = <<>>
  /\ matched = {}

(* generate_recommendations_for_applicant: the applicant's old rows are
   deleted, the new rows are inserted, the top rows are returned *)
Generate ==
  /\ GenerateError(applicant) = "none"
  /\ \E order \in ReadOrders :
       LET colleges == CollegeResults("generate", applicant, order)
           jobs == JobResults("generate", applicant, order)
       IN  /\ college_recs' = colleges
           /\ job_recs' = jobs
           /\ resp' = GenerateResponse(applicant, colleges, jobs)
  /\ UNCHANGED <<ledgerVars, applicant, required, skill_names, matched>>

(* the run at the end of parse_applicant: same delete and insert; the
   response carries only the two counts *)
ParseGenerate ==
  /\ applicant.exists
  /\ applicant' = [applicant EXCEPT !.llm_record = TRUE]
  /\ \E order \in ReadOrders :
       /\ college_recs' = CollegeResults("parse", applicant, order)
       /\ job_recs' = JobResults("parse", applicant, order)
  /\ resp' = [path |-> "parse",
              interview_bonus |-> InterviewBonus("parse", applicant),
              assessment_bonus |-> AssessmentBonus(applicant),
              colleges |-> <<>>,
              jobs |-> <<>>]
  /\ UNCHANGED <<ledgerVars, required, skill_names, matched>>

NextRec ==
  \/ Generate
  \/ ParseGenerate

SpecRec == InitRec /\ [][NextRec]_vars

(***************************************************************************)
(* Properties of the recommendation runs                                   *)
(***************************************************************************)
Ran == resp.path \in {"generate", "parse"}

EligibilityOf(c) ==
  { CollegeEligibilityRows[k] : k \in { j \in 1..Len(CollegeEligibilityRows) :
                                        CollegeEligibilityRows[j].college_id = c } }

JobOf(id) == Jobs[CHOOSE k \in 1..Len(Jobs) : Jobs[k].id = id]

(* the applicant fails a cutoff of the college: the rank is present and worse
   than the rank cutoff, or the grade is present and below the grade cutoff *)
FailsCollege(a, c) ==
  \E e \in EligibilityOf(c) :
    \/ e.min_jee_rank # None /\ a.jee_rank # None /\ a.jee_rank > e.min_jee_rank
    \/ e.min_cgpa # None /\ a.grade # None /\ a.grade < e.min_cgpa

FailsJob(a, id) ==
  JobOf(id).min_cgpa # None /\ a.grade # None /\ a.grade < JobOf(id).min_cgpa

(* C13: an applicant whose rank is present and worse than a college's rank
   cutoff, or whose grade is present and below a college's or a job's grade
   cutoff, has no stored and no returned recommendation for that target.
   Violated: the college loop tests `eligibility.min_cgpa and applicant_cgpa`,
   so a grade of 0.0, present and below every cutoff, is never compared. *)
C13_EligibilityGate ==
  Ran =>
    /\ \A i \in 1..Len(college_recs) : ~FailsCollege(applicant, college_recs[i].college_id)
    /\ \A i \in 1..Len(resp.colleges) : ~FailsCollege(applicant, resp.colleges[i].college_id)
    /\ \A i \in 1..Len(job_recs) : ~FailsJob(applicant, job_recs[i].job_id)
    /\ \A i \in 1..Len(resp.jobs) : ~FailsJob(applicant, resp.jobs[i].job_id)

(* the required names of the approved programs of college c that match *)
MatchedAt(a, c) ==
  { r \in UNION { { p.required_skills[i] : i \in 1..Len(p.required_skills) } :
                  p \in { q \in CollegePrograms : q.college_id = c /\ q.status = "approved" } } :
      Len(r) > 0 /\ SkillMatches(r, a.skills) }

(* the parts of the score of an eligibility row, as the claim states them *)
CollegeParts(a, e, ib, ab) ==
  LET n == Cardinality(MatchedAt(a, e.college_id))
  IN  << IF e.min_jee_rank # None /\ a.jee_rank # None THEN 35 * Unit ELSE 0,
         IF e.min_cgpa # None /\ a.grade # None THEN 25 * Unit ELSE 0,
         (IF 5 * n <= 25 THEN 5 * n ELSE 25) * Unit,
         IF ib > 0 THEN ib \div 2 ELSE 0,
         ab >>

Sum5(p) == p[1] + p[2] + p[3] + p[4] + p[5]

Positive5(p) == Cardinality({ k \in 1..5 : p[k] > 0 })

ExampleApplicant ==
  /\ applicant.jee_rank = 2500
  /\ applicant.grade = 85
  /\ applicant.skills = <<Skill.Python, Skill.Django>>
  /\ applicant.sessions = {}
  /\ applicant.assessments = <<>>

(* C15: after a run of the generate endpoint, a college that passes the
   cutoffs has the score JEE_RANK_SCORE (cutoff and rank both present)
   + CGPA_SCORE (cutoff and grade both present) + min(SKILLS_SCORE, 5 x the
   number of matched required skills across its approved programs) + half
   the interview bonus when positive + the assessment bonus, one reason per
   positive part, and is stored exactly when that score is positive; rank
   2500, grade 8.5, skills [Python, Django] against cutoffs 3000 and 8.0 and
   one program requiring [Python, SQL] gives 35 + 25 + 5 with three reasons. *)
C15_CollegeScore ==
  resp.path = "generate" =>
    /\ \A i \in 1..Len(college_recs) :
         LET row == college_recs[i]
         IN  ~FailsCollege(applicant, row.college_id) =>
               \E e \in EligibilityOf(row.college_id) :
                 LET parts == CollegeParts(applicant, e, resp.interview_bonus,
                                           resp.assessment_bonus)
                 IN  /\ row.recommend_score = Sum5(parts)
                     /\ row.recommend_score > 0
                     /\ Len(row.reasons) = Positive5(parts)
    /\ \A c \in Colleges : \A e \in EligibilityOf(c) :
         (/\ ~FailsCollege(applicant, c)
          /\ Sum5(CollegeParts(applicant, e, resp.interview_bonus,
                               resp.assessment_bonus)) > 0)
           => \E i \in 1..Len(college_recs) : college_recs[i].college_id = c
    /\ ExampleApplicant =>
         \E i \in 1..Len(college_recs) :
           /\ college_recs[i].college_id = 1
           /\ college_recs[i].recommend_score = (35 + 25 + 5) * Unit
           /\ Len(college_recs[i].reasons) = 3

(* witness of C15: the example, and a college at the cap of the skill part *)
C15_Witness ==
  /\ resp.path = "generate"
  /\ ExampleApplicant
  /\ college_recs[1].college_id = 1
  /\ college_recs[1].recommend_score = 65 * Unit
  /\ college_recs[1].reasons = <<"jee_rank", "cgpa", "skills">>

(* the parts of the score of a job, as the claim states them; the half of
   ACADEMIC_SCORE also goes to an applicant without a grade *)
JobParts(a, job, ib, ab) ==
  LET names == { r \in { job.required_skills[i] : i \in 1..Len(job.required_skills) } :
                   Len(r) > 0 /\ SkillMatches(r, a.skills) }
      n == IF Len(job.required_skills) >= 1 THEN Len(job.required_skills) ELSE 1
  IN  << IF job.min_cgpa # None /\ a.grade # None THEN 20 * Unit ELSE 10 * Unit,
         (Cardinality(names) * 50 * Unit) \div n,
         IF job.min_experience_years \in {None, 0} THEN 20 * Unit ELSE 0,
         ib,
         ab >>

(* x is y rounded to two decimals *)
IsRounded(x, y) ==
  /\ x % (Unit \div 100) = 0
  /\ 2 * (x - y) <= Unit \div 100
  /\ 2 * (y - x) <= Unit \div 100

(* C16: a job row stored by the generate endpoint has the score (rounded to
   two decimals) academic part (ACADEMIC_SCORE when the grade cutoff is met,
   half of it when the job declares no grade cutoff) + skill part (matched /
   required x 50) + EXPERIENCE_SCORE when min_experience_years is 0 or absent
   + the interview bonus at full weight + the assessment bonus, and the
   components of its scoring_breakdown sum to the stored score; 1 of 3
   required skills matched gives a skill part of 50/3. *)
C16_JobScore ==
  resp.path = "generate" =>
    /\ \A i \in 1..Len(job_recs) :
         LET row == job_recs[i]
             b == row.scoring_breakdown
             parts == JobParts(applicant, JobOf(row.job_id), resp.interview_bonus,
                               resp.assessment_bonus)
         IN  /\ IsRounded(row.score, Sum5(parts))
             /\ b.academic_score = parts[1]
             /\ IsRounded(b.skill_score, parts[2])
             /\ b.experience_score = parts[3]
             /\ b.interview_score = parts[4]
             /\ b.assessment_score = parts[5]
             /\ b.academic_score + b.skill_score + b.experience_score
                  + b.interview_score + b.assessment_score = row.score
    /\ ExampleApplicant =>
         \E i \in 1..Len(job_recs) :
           /\ job_recs[i].job_id = 1
           /\ IsRounded(job_recs[i].scoring_breakdown.skill_score, (50 * Unit) \div 3)
           /\ IsRounded(job_recs[i].score, (50 * Unit) \div 3 + 10 * Unit + 20 * Unit)

(* witness of C16: the example, 1 of 3 required skills matched, no cutoff *)
C16_Witness ==
  /\ resp.path = "generate"
  /\ ExampleApplicant
  /\ job_recs[1].job_id = 1
  /\ job_recs[1].scoring_breakdown.skill_score = 1667 * (Unit \div 100)
  /\ job_recs[1].score = 4667 * (Unit \div 100)

(* C17: every college recommendation row that a run stores or returns has
   score > 0, and every job recommendation row has score >=
   MIN_JOB_RECOMMENDATION_SCORE (35), by whichever path the run was made.
   Violated: the run at the end of parse_applicant stores every job whose
   score is above 0. *)
C17_StoredAboveThreshold ==
  Ran =>
    /\ \A i \in 1..Len(college_recs) : college_recs[i].recommend_score > 0
    /\ \A i \in 1..Len(resp.colleges) : resp.colleges[i].score > 0
    /\ \A i \in 1..Len(job_recs) : job_recs[i].score >= 35 * Unit
    /\ \A i \in 1..Len(resp.jobs) : resp.jobs[i].score >= 35 * Unit

(* the latest completed session with a score was completed more than 6
   months ago: 6 calendar months are 181 days or more *)
LatestIsStale(a) ==
  /\ \E s \in a.sessions : s.status = "completed" /\ s.overall_score # None
  /\ \A s \in a.sessions :
       (s.status = "completed" /\ s.overall_score # None) => s.days_ago >= 181

(* C18: when the applicant's most recent completed session with a non-null
   overall score was completed more than 6 months before the run, the
   interview bonus of the run is 0 for colleges and for jobs, whatever the
   score: no row carries an interview part. *)
C18_StaleInterviewNoBonus ==
  (Ran /\ LatestIsStale(applicant)) =>
    /\ resp.interview_bonus = 0
    /\ \A i \in 1..Len(job_recs) : job_recs[i].scoring_breakdown.interview_score = 0
    /\ \A i \in 1..Len(college_recs) :
         /\ \A k \in 1..Len(college_recs[i].reasons) : college_recs[i].reasons[k] # "interview"
         /\ ~FailsCollege(applicant, college_recs[i].college_id) =>
              \E e \in EligibilityOf(college_recs[i].college_id) :
                college_recs[i].recommend_score
                  = Sum5(CollegeParts(applicant, e, 0, resp.assessment_bonus))

(* witness of C18: a score of 95 from 181 days ago, rows stored without it *)
C18_Witness ==
  /\ resp.path = "generate"
  /\ applicant.sessions = {Session("completed", 95, 181)}
  /\ resp.interview_bonus = 0
  /\ Len(job_recs) > 0
  /\ Len(college_recs) > 0

(* the bonus the claim states for a fresh score: the base weight times 1,
   two-thirds (0.67), one-third (0.33) or 0 *)
StepBonus(score) ==
  IF score >= 80 THEN 15 * Unit
  ELSE IF score >= 60 THEN (15 * Unit * 67) \div 100
  ELSE IF score >= 40 THEN (15 * Unit * 33) \div 100
  ELSE 0

(* C19: the interview bonus of a run is the step function of the latest
   fresh score (base weight x 1 from 80, x two-thirds from 60, x one-third
   from 40, 0 below), in the generate endpoint and in the run at parse time.
   Violated: the run at parse time multiplies by 1.5, 1.0 and 0.5. *)
C19_BonusStepFunction ==
  Ran =>
    \A s \in applicant.sessions :
      (/\ s.status = "completed" /\ s.overall_score # None
       /\ \A t \in applicant.sessions :
            (t.status = "completed" /\ t.overall_score # None) => s.days_ago <= t.days_ago
       /\ s.days_ago < 180)
        => resp.interview_bonus = StepBonus(s.overall_score)

(* C20: after a run of the generate endpoint the store holds at most one
   recommendation row per target of the applicant, and a second run on the
   same data leaves the same (target, score) pairs.
   Violated: the college query joins every eligibility row, and college_id
   is no unique column of CollegeEligibility, so a college with two
   eligibility rows is scored and stored twice in one run. *)
C20_OneRowPerTarget ==
  resp.path = "generate" =>
    /\ \A i, j \in 1..Len(college_recs) :
         college_recs[i].college_id = college_recs[j].college_id => i = j
    /\ \A i, j \in 1..Len(job_recs) :
         job_recs[i].job_id = job_recs[j].job_id => i = j
    /\ \E order \in ReadOrders :
         /\ college_recs = CollegeResults("generate", applicant, order)
         /\ job_recs = JobResults("generate", applicant, order)

(***************************************************************************)
(* Further properties of the credit ledger                                 *)
(***************************************************************************)
RECURSIVE SumAmounts(_)
SumAmounts(txs) == IF txs = <<>> THEN 0 ELSE Head(txs).amount + SumAmounts(Tail(txs))

(* C24: a check of a capped activity whose counter has reached its cap is
   rejected with the reason of that cap, never with "Insufficient credits"
   or another reason, also when the balance is below the cost.
   Violated: the full-interview cap is never compared (see C6), so a check
   with 4 full interviews this week and 5 credits answers with the balance
   reason. *)
C24_CapRejectionFirst ==
  (/\ last.op = "check"
   /\ last.act \in CappedActivities
   /\ Counter(stats, last.act) >= Cap(last.act))
  => /\ ~last.res.allowed
     /\ last.res.reason \notin {"Insufficient credits", "Daily usage limit reached",
                                "Eligible", "none"}

(* C25: check_eligibility and get_account_summary zero the daily counters
   exactly when the date of last_daily_reset is before the date of the call,
   and the weekly counters exactly when 7 or more days have passed since
   last_weekly_reset; a reset sets its timestamp to the time of the call and
   counters inside their window are left as they were. *)
C25_ResetsExactlyWhenDue ==
  last.op \in {"check", "summary"} =>
    LET p == last.pre.stats
        newDay == (p.last_daily_reset \div TicksPerDay) < (last.at \div TicksPerDay)
        newWeek == ((last.at - p.last_weekly_reset) \div TicksPerDay) >= 7
    IN  /\ IF newDay
           THEN /\ stats.credits_used_today = 0
                /\ stats.micro_sessions_today = 0
                /\ stats.coding_questions_today = 0
                /\ stats.last_daily_reset = last.at
           ELSE /\ stats.credits_used_today = p.credits_used_today
                /\ stats.micro_sessions_today = p.micro_sessions_today
                /\ stats.coding_questions_today = p.coding_questions_today
                /\ stats.last_daily_reset = p.last_daily_reset
        /\ IF newWeek
           THEN /\ stats.credits_used_this_week = 0
                /\ stats.full_interviews_this_week = 0
                /\ stats.project_ideas_this_week = 0
                /\ stats.last_weekly_reset = last.at
           ELSE /\ stats.credits_used_this_week = p.credits_used_this_week
                /\ stats.full_interviews_this_week = p.full_interviews_this_week
                /\ stats.project_ideas_this_week = p.project_ideas_this_week
                /\ stats.last_weekly_reset = p.last_weekly_reset

(* witness of C25: a call exactly 7 days after the last weekly reset that
   zeroed weekly usage, the weekly counter and stamped the reset *)
C25_Witness ==
  /\ last.op \in {"check", "summary"}
  /\ last.pre.stats.credits_used_this_week > 0
  /\ last.pre.stats.full_interviews_this_week > 0
  /\ (last.at - last.pre.stats.last_weekly_reset) \div TicksPerDay = 7
  /\ stats.credits_used_this_week = 0
  /\ stats.full_interviews_this_week = 0
  /\ stats.last_weekly_reset = last.at

(* C28: the balance is the initial balance plus the amounts of all logged
   transactions, and it is total_earned - total_spent.
   Violated: a refill cut by the 2 x weekly_credit_limit cap logs, and adds
   to total_earned, the whole weekly amount. *)
C28_LedgerAccountsForBalance ==
  /\ Balance = DEFAULT_WEEKLY_CREDITS + SumAmounts(ledger)
  /\ Balance = account.total_earned - account.total_spent

(* C29: an overdue refill, done by a check or a summary, never lowers the
   balance.
   Violated: a balance that bonuses raised above 2 x weekly_credit_limit is
   cut down to that cap by the refill. *)
C29_RefillNeverLowers ==
  (/\ last.op \in {"check", "summary"}
   /\ last.at >= last.pre.account.next_refill_at)
  => Balance >= last.pre.account.current_credits

(* C30: the refund of a failed generation changes current_credits,
   total_earned, admin_bonus_credits and the ledger only: total_spent, the
   usage of the day and of the week and every per-activity counter are as
   they were before the refund. *)
C30_RefundFrame ==
  last.op = "refund" =>
    LET p == last.pre
    IN  /\ stats = p.stats
        /\ account = [p.account EXCEPT
                        !.current_credits = account.current_credits,
                        !.total_earned = account.total_earned,
                        !.admin_bonus_credits = account.admin_bonus_credits]
        /\ account.total_spent = p.account.total_spent
        /\ IsPrefix(p.ledger, ledger)

(* witness of C30: a refunded full interview that still counts in the usage
   statistics and in total_spent *)
C30_Witness ==
  /\ last.op = "refund"
  /\ last.act = "full_interview"
  /\ Balance = last.pre.account.current_credits + FULL_MOCK_INTERVIEW_COST
  /\ stats.full_interviews_this_week >= 1
  /\ stats.credits_used_today >= FULL_MOCK_INTERVIEW_COST
  /\ account.total_spent >= FULL_MOCK_INTERVIEW_COST
  /\ Len(ledger) = Len(last.pre.ledger) + 1

(***************************************************************************)
(* Runs of the generate endpoint step by step: the handler commits the     *)
(* delete of the old rows, scores, and commits the new rows at its end.    *)
(* Two requests of one applicant run against the same store; a run may     *)
(* fail between its two commits.                                           *)
(***************************************************************************)
GenApplicants ==
  { a \in [exists : BOOLEAN, llm_record : BOOLEAN,
           jee_rank : {2500}, grade : {None, 85},
           skills : {<<Skill.Python, Skill.Django>>},
           sessions : {{Session("completed", 70, 10)}},
           assessments : {<<>>}] :
      a.llm_record => a.exists }

NoRows == [college_recs |-> <<>>, job_recs |-> <<>>]

(* the slot of a request that is not running *)
NoRequest == [act |-> "none", cost |-> 0, before |-> account.current_credits]

InitGen ==
  /\ LedgerNew
  /\ applicant \in GenApplicants
  /\ college_recs = <<>>
  /\ job_recs = <<>>
  /\ resp = NoResponse
  /\ required = <<>>
  /\ skill_names = <<>>
  /\ matched = {}

(* the HTTPException raised before anything is deleted *)
GenRejected(r) ==
  /\ pc[r] = "idle"
  /\ GenerateError(applicant) # "none"
  /\ resp' = [NoResponse EXCEPT !.path = GenerateError(applicant)]
  /\ last' = Record("rejected", "generate", r, NoResult, Rows)
  /\ UNCHANGED <<account, stats, ledger, now, pc, req, base>>
  /\ UNCHANGED <<applicant, college_recs, job_recs, required, skill_names, matched>>

(* the two delete() calls and the db.commit() that follows them *)
GenDelete(r) ==
  /\ pc[r] = "idle"
  /\ GenerateError(applicant) = "none"
  /\ college_recs' = <<>>
  /\ job_recs' = <<>>
  /\ pc' = [pc EXCEPT ![r] = "deleted"]
  /\ req' = [req EXCEPT ![r] = [act |-> "generate", cost |-> 0, before |-> Rows]]
  /\ last' = Record("delete", "generate", r, NoResult, Rows)
  /\ UNCHANGED <<account, stats, ledger, now, base>>
  /\ UNCHANGED <<applicant, resp, required, skill_names, matched>>

(* the two scoring loops with their db.add calls, the final db.commit()
   and the response *)
GenInsert(r) ==
  /\ pc[r] = "deleted"
  /\ \E order \in ReadOrders :
       LET colleges == CollegeResults("generate", applicant, order)
           jobs == JobResults("generate", applicant, order)
       IN  /\ college_recs' = college_recs \o colleges
           /\ job_recs' = job_recs \o jobs
           /\ resp' = GenerateResponse(applicant, colleges, jobs)
  /\ pc' = [pc EXCEPT ![r] = "idle"]
  /\ req' = [req EXCEPT ![r] = NoRequest]
  /\ last' = Record("insert", "generate", r, NoResult, NoRows)
  /\ UNCHANGED <<account, stats, ledger, now, base>>
  /\ UNCHANGED <<applicant, required, skill_names, matched>>

(* an exception after the first commit: the session is closed, the rows
   added so far are dropped with it, the commit of the delete stays *)
GenFailed(r) ==
  /\ pc[r] = "deleted"
  /\ resp' = [NoResponse EXCEPT !.path = "failed"]
  /\ pc' = [pc EXCEPT ![r] = "idle"]
  /\ req' = [req EXCEPT ![r] = NoRequest]
  /\ last' = Record("failed", "generate", r, NoResult, req[r].before)
  /\ UNCHANGED <<account, stats, ledger, now, base>>
  /\ UNCHANGED <<applicant, college_recs, job_recs, required, skill_names, matched>>

(* GET /api/recommendations/{applicant_id} for an applicant that is missing
   (the 404 of the endpoint) or has no parsed record (the empty result of
   RecommendationService.get_recommendations); the runs of the service on a
   parsed record use another scorer and are not part of this model *)
ServiceWithoutRecord ==
  /\ GenerateError(applicant) # "none"
  /\ resp' = IF ~applicant.exists
             THEN [NoResponse EXCEPT !.path = "not_found"]
             ELSE [NoResponse EXCEPT !.path = "recommendations"]
  /\ last' = Record("service", "generate", 0, NoResult, Rows)
  /\ UNCHANGED <<account, stats, ledger, now, pc, req, base>>
  /\ UNCHANGED <<applicant, college_recs, job_recs, required, skill_names, matched>>

(* upload_resume on a second upload: the existing parsed record is deleted
   and the delete is committed *)
UploadDeletesRecord ==
  /\ applicant.llm_record
  /\ applicant' = [applicant EXCEPT !.llm_record = FALSE]
  /\ last' = Record("upload", "delete_record", 0, NoResult, NoRows)
  /\ UNCHANGED <<account, stats, ledger, now, pc, req, base>>
  /\ UNCHANGED <<college_recs, job_recs, resp, required, skill_names, matched>>

(* upload_resume: the applicant is created if missing, the new parsed
   record is added and committed *)
UploadStoresRecord ==
  /\ ~applicant.llm_record
  /\ applicant' = [applicant EXCEPT !.exists = TRUE, !.llm_record = TRUE]
  /\ last' = Record("upload", "store_record", 0, NoResult, NoRows)
  /\ UNCHANGED <<account, stats, ledger, now, pc, req, base>>
  /\ UNCHANGED <<college_recs, job_recs, resp, required, skill_names, matched>>

NextGen ==
  \/ \E r \in Requests : GenRejected(r)
  \/ \E r \in Requests : GenDelete(r)
  \/ \E r \in Requests : GenInsert(r)
  \/ \E r \in Requests : GenFailed(r)
  \/ ServiceWithoutRecord
  \/ UploadDeletesRecord
  \/ UploadStoresRecord

SpecGen == InitGen /\ [][NextGen]_vars

(***************************************************************************)
(* Properties of the runs                                                  *)
(***************************************************************************)
NoRequestRunning == \A r \in Requests : pc[r] = "idle"

(* C21: two generate calls of one applicant never overlap, so when no call
   is under way the store holds the rows of exactly one generation and no
   job twice.
   Violated: nothing locks the applicant between the commit of the delete
   and the commit of the inserts; both calls delete, then both insert. *)
C21_RunsSerialized ==
  /\ \A r, q \in Requests : (pc[r] = "deleted" /\ pc[q] = "deleted") => r = q
  /\ NoRequestRunning =>
       /\ \A i, j \in 1..Len(job_recs) :
            job_recs[i].job_id = job_recs[j].job_id => i = j
       /\ \/ Rows = NoRows
          \/ \E order \in ReadOrders :
               /\ college_recs = CollegeResults("generate", applicant, order)
               /\ job_recs = JobResults("generate", applicant, order)

(* C22: every job recommendation row stored by a run is of a job that is
   approved and not expired.
   Violated: the runs select the jobs by status = 'approved' alone and never
   read expires_at. *)
C22_ApprovedAndNotExpired ==
  \A i \in 1..Len(job_recs) :
    \E k \in 1..Len(Jobs) :
      /\ Jobs[k].id = job_recs[i].job_id
      /\ Jobs[k].status = "approved"
      /\ Jobs[k].expires_at = None \/ Jobs[k].expires_at > 0

(* C23: a generation asked for a missing applicant fails with the not-found
   error, one asked for an applicant without parsed record fails with the
   no-parsed-data error, and both leave the recommendation rows as they were.
   Violated: RecommendationService.get_recommendations answers an applicant
   without parsed record with two empty lists and no error. *)
C23_MissingDataRejected ==
  (last.op \in {"rejected", "service"}) =>
    /\ Rows = last.pre
    /\ ~applicant.exists => resp.path = "not_found"
    /\ (applicant.exists /\ ~applicant.llm_record) => resp.path = "no_parsed_data"

(* C26: the delete of the old rows and the insert of the new ones are one
   transaction: no commit leaves the store without the old rows before the
   new ones are stored, and after a failed run the rows the run found are
   still stored.
   Violated: the handler commits right after the two deletes. *)
C26_AtomicReplace ==
  /\ last.op = "delete" => Rows = last.pre
  /\ last.op = "failed" =>
       /\ \A i \in 1..Len(last.pre.college_recs) :
            \E j \in 1..Len(college_recs) : college_recs[j] = last.pre.college_recs[i]
       /\ \A i \in 1..Len(last.pre.job_recs) :
            \E j \in 1..Len(job_recs) : job_recs[j] = last.pre.job_recs[i]

(* C27: the generate endpoint returns at most 10 rows of each kind, by
   score descending and, at equal scores, by target id ascending.
   Violated: sorted() compares the scores alone and is stable, so rows of
   equal score come back in the order the query read them. *)
C27_TopTenByScoreThenId ==
  resp.path = "generate" =>
    /\ Len(resp.colleges) <= 10
    /\ Len(resp.jobs) <= 10
    /\ \A i, j \in 1..Len(resp.colleges) :
         i < j => \/ resp.colleges[i].score > resp.colleges[j].score
                  \/ /\ resp.colleges[i].score = resp.colleges[j].score
                     /\ resp.colleges[i].college_id <= resp.colleges[j].college_id
    /\ \A i, j \in 1..Len(resp.jobs) :
         i < j => \/ resp.jobs[i].score > resp.jobs[j].score
                  \/ /\ resp.jobs[i].score = resp.jobs[j].score
                     /\ resp.jobs[i].job_id < resp.jobs[j].job_id

====
